---- MODULE Spec2Model ----
(***************************************************************************)
(* Country/currency refresh service (Django, MySQL).                       *)
(*                                                                         *)
(* Conventions of the model:                                               *)
(*  - a string is a sequence of one-character strings, so that case        *)
(*    folding and number parsing are computed character by character;      *)
(*  - Python's None / an absent JSON key is the empty tuple None, a        *)
(*    present value v is Some(v) = <<v>>;                                  *)
(*  - a float is an exact rational <<num, den>> with den > 0, reduced.     *)
(***************************************************************************)
EXTENDS Integers, Sequences, FiniteSets, TLC

\* ------------------------------------------------------------------ bounds
\* Longest list fetch_countries returns in the model.
MaxBatch == 2
\* Number of POST /countries/refresh requests served in a behaviour.
MaxRefreshes == 2
\* The multipliers drawn are MultSamples+1 evenly spaced points of the range.
MultSamples == 1

\* ------------------------------------------------------- program constants
MinMultiplier == 1000
MaxMultiplier == 2000
TopN == 5
HTTP_200 == 200
HTTP_404 == 404
HTTP_500 == 500
HTTP_503 == 503

\* --------------------------------------------------------- optional values
None == <<>>
Some(v) == <<v>>
IsNone(o) == o = <<>>
Val(o) == o[1]

\* ------------------------------------------------------------------ strings
EmptyStr == <<>>
\* One character lower-cased: the characters of the model that have an
\* upper-case form are a, b, e, u, x.
LowerChar(c) ==
    IF c = "A" THEN "a"
    ELSE IF c = "B" THEN "b"
    ELSE IF c = "E" THEN "e"
    ELSE IF c = "U" THEN "u"
    ELSE IF c = "X" THEN "x"
    ELSE c
\* The case-folded form of a string.
Fold(s) == [k \in DOMAIN s |-> LowerChar(s[k])]

\* The exact comparison a case-sensitive lookup would make.
ExactMatch(a, b) == a = b
\* The __iexact lookup: equality up to letter case.
IExact(a, b) == Fold(a) = Fold(b)

\* ------------------------------------------------------------------- floats
RECURSIVE Gcd(_, _)
Gcd(a, b) == IF b = 0 THEN a ELSE Gcd(b, a % b)
Abs(n) == IF n < 0 THEN 0 - n ELSE n
\* The rational n/d (d # 0), reduced, with a positive denominator.
Rat(n, d) ==
    LET g == Gcd(Abs(n), Abs(d))
        s == IF d < 0 THEN 0 - 1 ELSE 1
    IN  <<(s * n) \div g, (s * d) \div g>>
Zero == <<0, 1>>
RatLess(x, y) == x[1] * y[2] < y[1] * x[2]

RECURSIVE Pow10(_)
Pow10(k) == IF k = 0 THEN 1 ELSE 10 * Pow10(k - 1)
IsDigit(c) == c \in {"0", "1", "2", "3", "4", "5", "6", "7", "8", "9"}
DigitVal(c) ==
    CASE c = "0" -> 0 [] c = "1" -> 1 [] c = "2" -> 2 [] c = "3" -> 3
      [] c = "4" -> 4 [] c = "5" -> 5 [] c = "6" -> 6 [] c = "7" -> 7
      [] c = "8" -> 8 [] c = "9" -> 9
RECURSIVE Digits(_)
\* The number a string of digits denotes (0 for the empty string).
Digits(s) ==
    IF s = <<>> THEN 0
    ELSE 10 * Digits(SubSeq(s, 1, Len(s) - 1)) + DigitVal(s[Len(s)])

\* float() of a string: an optional sign, digits with at most one point and
\* at least one digit. None stands for the ValueError.
FloatOfStr(s) ==
    LET neg  == Len(s) > 0 /\ s[1] = "-"
        body == IF neg THEN Tail(s) ELSE s
        dots == {k \in DOMAIN body : body[k] = "."}
        dot  == IF dots = {} THEN Len(body) + 1 ELSE CHOOSE k \in dots : TRUE
        ip   == SubSeq(body, 1, dot - 1)
        fp   == SubSeq(body, dot + 1, Len(body))
        ok   == /\ Cardinality(dots) <= 1
                /\ Len(ip) + Len(fp) >= 1
                /\ \A k \in DOMAIN ip : IsDigit(ip[k])
                /\ \A k \in DOMAIN fp : IsDigit(fp[k])
        mag  == Digits(ip) * Pow10(Len(fp)) + Digits(fp)
    IN  IF ok THEN Some(Rat(IF neg THEN 0 - mag ELSE mag, Pow10(Len(fp))))
        ELSE None

\* A JSON value of the rate mapping: a number, a string or null.
JNum(n, d) == [k |-> "num", num |-> Rat(n, d), str |-> <<>>]
JStr(s) == [k |-> "str", num |-> Zero, str |-> s]
JNull == [k |-> "null", num |-> Zero, str |-> <<>>]

\* float(value) inside try/except (TypeError, ValueError): None on either.
ToFloat(v) ==
    CASE v.k = "num" -> Some(v.num)
      [] v.k = "str" -> FloatOfStr(v.str)
      [] OTHER -> None

\* ------------------------------------------------------------- raw records
\* One element of the list fetch_countries returns: every key may be absent
\* or null. currencies is a list of entries, each null or an object whose
\* code may be absent.
RawCountry(name, capital, region, population, flag, currencies) ==
    [name |-> name, capital |-> capital, region |-> region,
     population |-> population, flag |-> flag, currencies |-> currencies]
Entry(code) == Some([code |-> code])

\* item.get('population') or 0
PopulationOf(item) ==
    IF IsNone(item.population) THEN 0 ELSE Val(item.population)
\* item.get('currencies') or []
CurrenciesOf(item) ==
    IF IsNone(item.currencies) THEN <<>> ELSE Val(item.currencies)
\* `not name`: the key is absent, null or the empty string.
HasName(item) == ~IsNone(item.name) /\ Val(item.name) # EmptyStr
\* first = currencies[0] or {}; code = first.get('code')
FirstCode(item) ==
    LET first == CurrenciesOf(item)[1]
    IN  IF IsNone(first) THEN None ELSE Val(first).code

\* utils.make_multiplier: random.randint(1000, 2000). The model draws from
\* MultSamples + 1 evenly spaced points that include both ends.
Multipliers ==
    {MinMultiplier + ((MaxMultiplier - MinMultiplier) * k) \div MultSamples :
        k \in 0..MultSamples}

\* `exchange_rate and exchange_rate != 0`
RateUsable(rate) == ~IsNone(rate) /\ Val(rate) # Zero

\* The value the other branches store when nothing can be computed.
NoCurrencyGdpNull == None
\* The value stored for a record without currencies.
NoCurrencyGdp == Some(Zero)

\* Lines 56-85: (currency_code, exchange_rate, estimated_gdp) of one raw
\* record under the rate mapping, with the multiplier that was drawn.
Derive(item, rates, multiplier) ==
    IF CurrenciesOf(item) # <<>> THEN
        LET code == FirstCode(item) IN
        IF ~IsNone(code) /\ Val(code) # EmptyStr /\ Val(code) \in DOMAIN rates THEN
            LET rate == ToFloat(rates[Val(code)]) IN
            [currency_code |-> code,
             exchange_rate |-> rate,
             estimated_gdp |->
                IF RateUsable(rate)
                THEN Some(Rat(PopulationOf(item) * multiplier * Val(rate)[2],
                              Val(rate)[1]))
                ELSE None]
        ELSE [currency_code |-> code, exchange_rate |-> None,
              estimated_gdp |-> None]
    ELSE [currency_code |-> None, exchange_rate |-> None,
          estimated_gdp |-> NoCurrencyGdp]

\* Lines 90-100: the field values written for one raw record.
Defaults(item, rates, multiplier, now) ==
    LET d == Derive(item, rates, multiplier) IN
    [name |-> Val(item.name), capital |-> item.capital, region |-> item.region,
     population |-> PopulationOf(item), flag_url |-> item.flag,
     currency_code |-> d.currency_code, exchange_rate |-> d.exchange_rate,
     estimated_gdp |-> d.estimated_gdp, last_refreshed_at |-> Some(now)]

\* A row of the countries table: the fields plus the auto-generated id.
Row(id, f) ==
    [id |-> id, name |-> f.name, capital |-> f.capital, region |-> f.region,
     population |-> f.population, flag_url |-> f.flag_url,
     currency_code |-> f.currency_code, exchange_rate |-> f.exchange_rate,
     estimated_gdp |-> f.estimated_gdp,
     last_refreshed_at |-> f.last_refreshed_at]
Ids(rows) == {r.id : r \in rows}

\* -------------------------------------------------------------------- state
\* The two request workers that can serve POST /countries/refresh at once.
Procs == {1, 2}

VARIABLES
    db,         \* the committed rows of the countries table
    nextId,     \* the table's auto-increment counter
    clock,      \* the wall clock get_now reads
    started,    \* refresh requests accepted so far
    image,      \* the summary image on disk: None or Some([total, top, ts])
    pc,         \* per worker: the position in refresh_countries
    data,       \* per worker: countries_data
    rates,      \* per worker: the rate mapping
    now,        \* per worker: the timestamp of the batch
    idx,        \* per worker: index of the item of the for loop
    obj,        \* per worker: the row the lookup found, or None
    dflt,       \* per worker: the defaults dict of the current item
    wr,         \* per worker: the rows written in the open transaction
    resp,       \* per worker: status of the response (0: none yet)
    err,        \* per worker: what made the request fail ("" if nothing)
    nwrites,    \* per worker: write statements issued in this request
    touched,    \* per worker: whether this request changed the committed rows
    rd          \* the read request in progress or last answered

vars == <<db, nextId, clock, started, image, pc, data, rates,
          now, idx, obj, dflt, wr, resp, err, nwrites, touched, rd>>

\* No read request yet. A read request records its kind, its position, its
\* query, the response (status, and body or total and last), and, for the
\* check of what it observed, the status summaries of the committed tables
\* that existed while it ran and whether a DELETE was served meanwhile.
NoQuery == [region |-> None, currency |-> None, sort |-> None, other |-> {}]
NoRead == [kind |-> "none", pc |-> "done", query |-> NoQuery, status |-> 0,
           body |-> <<>>, total |-> 0, last |-> None, seen |-> {},
           mixed |-> FALSE]

Init ==
    /\ db = {}
    /\ nextId = 1
    /\ clock = 1
    /\ started = 0
    /\ image = None
    /\ pc = [p \in Procs |-> "idle"]
    /\ data = [p \in Procs |-> <<>>]
    /\ rates = [p \in Procs |-> <<>>]
    /\ now = [p \in Procs |-> 0]
    /\ idx = [p \in Procs |-> 1]
    /\ obj = [p \in Procs |-> None]
    /\ dflt = [p \in Procs |-> None]
    /\ wr = [p \in Procs |-> {}]
    /\ resp = [p \in Procs |-> 0]
    /\ err = [p \in Procs |-> ""]
    /\ nwrites = [p \in Procs |-> 0]
    /\ touched = [p \in Procs |-> FALSE]
    /\ rd = NoRead

\* ------------------------------------------------------------- the database
\* The key of the unique index on name: MySQL's default collation of the
\* utf8mb4 character set compares without regard to letter case.
NameKey(s) == Fold(s)

\* What the statements of worker p's transaction read (READ COMMITTED, the
\* isolation level Django sets on MySQL): the committed rows, with the rows
\* this transaction wrote in place of their committed versions.
View(p) == {r \in db : r.id \notin Ids(wr[p])} \cup wr[p]

\* The rows other open transactions wrote and still hold locked.
LockedByOthers(p) == UNION {wr[q] : q \in Procs \ {p}}

\* The lookup with name= in place of name__iexact=.
NameMatchExact(stored, name) == ExactMatch(stored, name)
\* The lookup of line 89.
NameMatch(stored, name) == IExact(stored, name)
Matching(rows, name) == {r \in rows : NameMatch(r.name, name)}
\* QuerySet.first(): the row with the least primary key, or None.
First(rows) ==
    IF rows = {} THEN None
    ELSE Some(CHOOSE r \in rows : \A o \in rows : r.id <= o.id)

\* Without the atomic block every write statement commits by itself.
AtomicExitAutocommit(writes, exception) == writes
\* Leaving `with transaction.atomic()`: the writes that reach the table are
\* all of them on a normal exit and none on an exception.
AtomicExit(writes, exception) == IF exception THEN {} ELSE writes
\* A refresh that replaces the table by the rows of its batch.
ApplyWritesReplace(rows, writes) == IF writes = {} THEN rows ELSE writes
ApplyWrites(rows, writes) ==
    {r \in rows : r.id \notin Ids(writes)} \cup writes

\* What a status read in progress has had the chance to see.
StatusOf(rows) ==
    <<Cardinality(rows),
      IF rows = {} THEN None
      ELSE (CHOOSE r \in rows :
               \A o \in rows : Val(o.last_refreshed_at) <= Val(r.last_refreshed_at)
           ).last_refreshed_at>>
RdAfter(rows, isDelete) ==
    IF rd.pc = "last"
    THEN [rd EXCEPT !.seen = @ \cup {StatusOf(rows)}, !.mixed = @ \/ isDelete]
    ELSE rd

\* ------------------------------------------------- POST /countries/refresh
\* The lists of at most MaxBatch raw records over a set of raw records.
BatchesOf(items) == UNION {[1..n -> items] : n \in 0..MaxBatch}

\* The status a fetch made inside the `try` of line 40 would end with.
FetchFailedStatusInternal == HTTP_500
\* The status of the response when a fetch raises RequestException.
FetchFailedStatus == HTTP_503
\* The status of the response of the `except Exception` clause.
InternalErrorStatus == HTTP_500
\* The status of the response after the transaction block.
SuccessStatus == HTTP_200

\* A worker takes a request only when it is not serving one; the second
\* worker is used only while the first is busy.
Free(p) ==
    /\ pc[p] \in {"idle", "done"}
    /\ \A q \in Procs : q < p => pc[q] \notin {"idle", "done"}
    /\ started < MaxRefreshes

Fresh(p) ==
    /\ started' = started + 1
    /\ rates' = [rates EXCEPT ![p] = <<>>]
    /\ now' = [now EXCEPT ![p] = 0]
    /\ idx' = [idx EXCEPT ![p] = 1]
    /\ obj' = [obj EXCEPT ![p] = None]
    /\ dflt' = [dflt EXCEPT ![p] = None]
    /\ wr' = [wr EXCEPT ![p] = {}]
    /\ nwrites' = [nwrites EXCEPT ![p] = 0]
    /\ touched' = [touched EXCEPT ![p] = FALSE]

\* Lines 22-23: fetch_countries returned a list.
FetchCountries(p, batches) ==
    /\ Free(p)
    /\ Fresh(p)
    /\ \E b \in batches : data' = [data EXCEPT ![p] = b]
    /\ pc' = [pc EXCEPT ![p] = "fetch_rates"]
    /\ resp' = [resp EXCEPT ![p] = 0]
    /\ err' = [err EXCEPT ![p] = ""]
    /\ UNCHANGED <<db, nextId, clock, image, rd>>

\* Lines 24-28: fetch_countries raised.
FetchCountriesFail(p) ==
    /\ Free(p)
    /\ Fresh(p)
    /\ data' = [data EXCEPT ![p] = <<>>]
    /\ pc' = [pc EXCEPT ![p] = "done"]
    /\ resp' = [resp EXCEPT ![p] = FetchFailedStatus]
    /\ err' = [err EXCEPT ![p] = "countries"]
    /\ UNCHANGED <<db, nextId, clock, image, rd>>

\* Lines 30-31 and 38: fetch_exchange_rates returned a mapping, then get_now.
FetchRates(p, tables) ==
    /\ pc[p] = "fetch_rates"
    /\ \E t \in tables : rates' = [rates EXCEPT ![p] = t]
    /\ now' = [now EXCEPT ![p] = clock]
    /\ clock' = clock + 1
    /\ pc' = [pc EXCEPT ![p] = "loop"]
    /\ UNCHANGED <<db, nextId, started, image, data, idx, obj,
                   dflt, wr, resp, err, nwrites, touched, rd>>

\* Lines 32-36: fetch_exchange_rates raised.
FetchRatesFail(p) ==
    /\ pc[p] = "fetch_rates"
    /\ pc' = [pc EXCEPT ![p] = "done"]
    /\ resp' = [resp EXCEPT ![p] = FetchFailedStatus]
    /\ err' = [err EXCEPT ![p] = "rates"]
    /\ UNCHANGED <<db, nextId, clock, started, image, data,
                   rates, now, idx, obj, dflt, wr, nwrites, touched, rd>>

\* Lines 118-120: an exception leaves the atomic block, which rolls back, and
\* the handler answers.
Abort(p, cause) ==
    LET after == ApplyWrites(db, AtomicExit(wr[p], TRUE)) IN
    /\ db' = after
    /\ rd' = RdAfter(after, FALSE)
    /\ touched' = [touched EXCEPT ![p] = after # db]
    /\ wr' = [wr EXCEPT ![p] = {}]
    /\ obj' = [obj EXCEPT ![p] = None]
    /\ dflt' = [dflt EXCEPT ![p] = None]
    /\ pc' = [pc EXCEPT ![p] = "done"]
    /\ resp' = [resp EXCEPT ![p] = InternalErrorStatus]
    /\ err' = [err EXCEPT ![p] = cause]

\* Lines 43-100: the next item of the loop. An item without a name is
\* skipped; otherwise its fields are derived and the row is looked up.
Select(p) ==
    /\ pc[p] = "loop"
    /\ idx[p] <= Len(data[p])
    /\ LET item == data[p][idx[p]] IN
       IF ~HasName(item)
       THEN /\ idx' = [idx EXCEPT ![p] = idx[p] + 1]
            /\ UNCHANGED <<pc, obj, dflt>>
       ELSE /\ \E m \in Multipliers :
                 dflt' = [dflt EXCEPT ![p] = Some(Defaults(item, rates[p], m, now[p]))]
            /\ obj' = [obj EXCEPT ![p] = First(Matching(View(p), Val(item.name)))]
            /\ pc' = [pc EXCEPT ![p] = "write"]
            /\ UNCHANGED idx
    /\ UNCHANGED <<db, nextId, clock, started, image, data,
                   rates, now, wr, resp, err, nwrites, touched, rd>>

\* Lines 102-109: obj.save() or Country.objects.create(). save() updates the
\* row of obj's id and inserts it when that row is gone; an insert whose name
\* is in the unique index raises IntegrityError. A statement that needs a row
\* another open transaction wrote waits for that transaction.
Write(p) ==
    /\ pc[p] = "write"
    /\ LET f == Val(dflt[p])
           found == ~IsNone(obj[p])
           update == found /\ Val(obj[p]).id \in Ids(View(p))
           id == IF found THEN Val(obj[p]).id ELSE nextId
           clash == {r \in View(p) : NameKey(r.name) = NameKey(f.name)}
           wait == {r \in LockedByOthers(p) :
                       \/ r.id = id
                       \/ ~update /\ NameKey(r.name) = NameKey(f.name)}
       IN
       /\ wait = {}
       /\ nwrites' = [nwrites EXCEPT ![p] = nwrites[p] + 1]
       /\ IF update \/ clash = {}
          THEN /\ wr' = [wr EXCEPT ![p] =
                            {r \in wr[p] : r.id # id} \cup {Row(id, f)}]
               /\ nextId' = IF found THEN nextId ELSE nextId + 1
               /\ idx' = [idx EXCEPT ![p] = idx[p] + 1]
               /\ pc' = [pc EXCEPT ![p] = "loop"]
               /\ UNCHANGED <<db, resp, err, touched, rd, obj, dflt>>
          ELSE /\ Abort(p, "integrity")
               /\ UNCHANGED <<nextId, idx>>
    /\ UNCHANGED <<clock, started, image, data, rates, now>>

\* The write statement raises for another reason (data too long for the
\* column, lost connection, deadlock victim, lock wait timeout).
WriteFail(p) ==
    /\ pc[p] = "write"
    /\ nwrites' = [nwrites EXCEPT ![p] = nwrites[p] + 1]
    /\ Abort(p, "storage")
    /\ UNCHANGED <<nextId, clock, started, image, data, rates,
                   now, idx>>

\* The rows with an estimated_gdp, in descending order of it, at most TopN:
\* every list the ORDER BY ... LIMIT of line 114 may return (the order of
\* equal values is the database's choice).
GdpRows(rows) == {r \in rows : ~IsNone(r.estimated_gdp)}
Min(a, b) == IF a < b THEN a ELSE b
TopLists(rows, n) ==
    LET G == GdpRows(rows)
        k == Min(n, Cardinality(G))
    IN  {s \in [1..k -> G] :
            /\ \A i, j \in 1..k :
                  i < j => /\ s[i] # s[j]
                           /\ ~RatLess(Val(s[i].estimated_gdp), Val(s[j].estimated_gdp))
            /\ \A r \in G : (\A i \in 1..k : s[i] # r) =>
                  \A i \in 1..k :
                      ~RatLess(Val(s[i].estimated_gdp), Val(r.estimated_gdp))}

\* utils.generate_summary_image: what the image shows.
SummaryImage(total, top5, timestamp) ==
    [total |-> total,
     top |-> [i \in DOMAIN top5 |-> <<top5[i].name, top5[i].estimated_gdp>>],
     ts |-> timestamp]

\* Lines 113-117: the loop is over; count, top five, image written to disk.
Report(p) ==
    /\ pc[p] = "loop"
    /\ idx[p] > Len(data[p])
    /\ \E top5 \in TopLists(View(p), TopN) :
          image' = Some(SummaryImage(Cardinality(View(p)), top5, now[p]))
    /\ pc' = [pc EXCEPT ![p] = "commit"]
    /\ UNCHANGED <<db, nextId, clock, started, data, rates, now, idx,
                   obj, dflt, wr, resp, err, nwrites, touched, rd>>

\* The failure of lines 113-117 caught and ignored next to the call, so that
\* the block is left normally.
ReportFailIgnored(p) ==
    /\ pc[p] = "loop"
    /\ idx[p] > Len(data[p])
    /\ pc' = [pc EXCEPT ![p] = "commit"]
    /\ err' = [err EXCEPT ![p] = "report"]
    /\ UNCHANGED <<db, nextId, clock, started, image, data, rates, now, idx,
                   obj, dflt, wr, resp, nwrites, touched, rd>>

\* Lines 113-117 raise (a query fails, the image cannot be drawn or saved).
ReportFail(p) ==
    /\ pc[p] = "loop"
    /\ idx[p] > Len(data[p])
    /\ Abort(p, "report")
    /\ UNCHANGED <<nextId, clock, started, image, data, rates, now,
                   idx, nwrites>>

\* The atomic block is left normally: COMMIT, then the response of line 122.
Commit(p) ==
    LET after == ApplyWrites(db, AtomicExit(wr[p], FALSE)) IN
    /\ pc[p] = "commit"
    /\ db' = after
    /\ touched' = [touched EXCEPT ![p] = after # db]
    /\ wr' = [wr EXCEPT ![p] = {}]
    /\ pc' = [pc EXCEPT ![p] = "done"]
    /\ resp' = [resp EXCEPT ![p] = SuccessStatus]
    /\ obj' = [obj EXCEPT ![p] = None]
    /\ dflt' = [dflt EXCEPT ![p] = None]
    /\ rd' = RdAfter(after, FALSE)
    /\ UNCHANGED <<nextId, clock, started, image, data, rates, now,
                   idx, err, nwrites>>

\* COMMIT itself raises.
CommitFail(p) ==
    /\ pc[p] = "commit"
    /\ Abort(p, "commit")
    /\ UNCHANGED <<nextId, clock, started, image, data, rates, now,
                   idx, nwrites>>

\* ------------------------------------------------ DELETE /countries/{name}
\* Lines 156-166: get() by case-insensitive name, then delete() and 204.
\* get() raises DoesNotExist (404) or, with several rows,
\* MultipleObjectsReturned (500), and then nothing is deleted. The DELETE
\* statement waits for a transaction that wrote the row. The status of the
\* response is not part of the state.
DeleteCountry(name) ==
    LET found == {r \in db : IExact(r.name, name)} IN
    /\ \A q \in Procs : Ids(found) \cap Ids(wr[q]) = {}
    /\ db' = IF Cardinality(found) = 1 THEN db \ found ELSE db
    /\ rd' = RdAfter(db', found # {})
    /\ UNCHANGED <<nextId, clock, started, image, pc, data, rates, now, idx,
                   obj, dflt, wr, resp, err, nwrites, touched>>

\* ---------------------------------------------------------- read requests
\* request.GET of GET /countries: region, currency, sort, and whatever other
\* keys the query string holds.
Query(region, currency, sort, other) ==
    [region |-> region, currency |-> currency, sort |-> sort, other |-> other]
GdpDesc == <<"g", "d", "p", "_", "d", "e", "s", "c">>
\* `if region:` - the parameter is present and not empty.
Given(param) == ~IsNone(param) /\ Val(param) # EmptyStr

\* Lines 138-142: the rows the filters leave.
Filtered(rows, q) ==
    {r \in rows :
        /\ Given(q.region) =>
              ~IsNone(r.region) /\ IExact(Val(r.region), Val(q.region))
        /\ Given(q.currency) =>
              ~IsNone(r.currency_code) /\ IExact(Val(r.currency_code), Val(q.currency))}

\* a comes before b under ORDER BY estimated_gdp DESC (NULLs come last) or
\* ties with it.
GdpNotAfter(a, b) ==
    \/ IsNone(b.estimated_gdp)
    \/ /\ ~IsNone(a.estimated_gdp)
       /\ ~RatLess(Val(a.estimated_gdp), Val(b.estimated_gdp))
\* Lines 143-146: the lists the query may return: by estimated_gdp
\* descending when sort is gdp_desc, else in primary-key order.
Listings(rows, q) ==
    LET n == Cardinality(rows) IN
    {s \in [1..n -> rows] :
        /\ \A i, j \in 1..n : i < j => s[i] # s[j]
        /\ \A i, j \in 1..n : i < j =>
              IF q.sort = Some(GdpDesc) THEN GdpNotAfter(s[i], s[j])
              ELSE s[i].id < s[j].id}

\* The status of the response of list_countries (line 147).
ListStatus(body) == HTTP_200

\* GET /countries (lines 134-147).
ListCountries(q) ==
    /\ rd.pc = "done"
    /\ \E body \in Listings(Filtered(db, q), q) :
          rd' = [NoRead EXCEPT !.kind = "list", !.query = q,
                               !.status = ListStatus(body), !.body = body]
    /\ UNCHANGED <<db, nextId, clock, started, image, pc, data, rates,
                   now, idx, obj, dflt, wr, resp, err, nwrites, touched>>

\* GET /countries/{name} (lines 156-163).
GetCountry(name) ==
    LET found == {r \in db : IExact(r.name, name)} IN
    /\ rd.pc = "done"
    /\ rd' = [NoRead EXCEPT
                !.kind = "detail",
                !.status = IF found = {} THEN HTTP_404
                           ELSE IF Cardinality(found) = 1 THEN HTTP_200
                           ELSE HTTP_500,
                !.body = IF Cardinality(found) = 1
                         THEN <<CHOOSE r \in found : TRUE>> ELSE <<>>]
    /\ UNCHANGED <<db, nextId, clock, started, image, pc, data, rates,
                   now, idx, obj, dflt, wr, resp, err, nwrites, touched>>

\* GET /status, first query (line 175): Country.objects.count().
StatusCount ==
    /\ rd.pc = "done"
    /\ rd' = [NoRead EXCEPT !.kind = "status", !.pc = "last",
                            !.total = Cardinality(db),
                            !.seen = {StatusOf(db)}]
    /\ UNCHANGED <<db, nextId, clock, started, image, pc, data, rates,
                   now, idx, obj, dflt, wr, resp, err, nwrites, touched>>

\* GET /status, second query and response (lines 176-178).
StatusLast ==
    /\ rd.pc = "last"
    /\ rd' = [rd EXCEPT !.pc = "done", !.status = HTTP_200,
                        !.last = StatusOf(db)[2]]
    /\ UNCHANGED <<db, nextId, clock, started, image, pc, data, rates,
                   now, idx, obj, dflt, wr, resp, err, nwrites, touched>>

\* ------------------------------------------------------------------ inputs
NameAb == <<"A", "b">>
NameaB == <<"a", "B">>
NameB == <<"B">>
CodeX == <<"X">>
CodeU == <<"U">>
RegionEu == <<"E", "u">>

\* What the countries API returns in Spec: a country with a currency, the
\* same country in another letter case without currencies, and another
\* country without a currencies key.
ItemAb ==
    RawCountry(Some(NameAb), Some(NameB), Some(RegionEu), Some(2), None,
               Some(<<Entry(Some(CodeX))>>))
ItemaB == RawCountry(Some(NameaB), None, None, None, None, Some(<<>>))
ItemB == RawCountry(Some(NameB), None, None, Some(1), None, None)
SmallItems == {ItemAb, ItemaB, ItemB}
\* In SpecSkip there are records without a usable name as well.
ItemNoName ==
    RawCountry(None, None, Some(RegionEu), Some(2), None,
               Some(<<Entry(Some(CodeX))>>))
ItemEmptyName == RawCountry(Some(EmptyStr), None, None, None, None, None)
SkipItems == {ItemAb, ItemB, ItemNoName, ItemEmptyName}
\* In SpecRead the two countries.
ReadItems == {ItemAb, ItemB}
SmallTables == {[c \in {CodeX} |-> JNum(2, 1)]}

\* What the APIs return in SpecDerive: every shape of population, currency
\* list and rate value the derivation distinguishes.
RichItems ==
    {RawCountry(name, None, None, population, None, currencies) :
        name \in {Some(NameAb)},
        population \in {None, Some(3)},
        currencies \in {None, Some(<<>>), Some(<<None>>), Some(<<Entry(None)>>),
                        Some(<<Entry(Some(EmptyStr))>>),
                        Some(<<Entry(Some(CodeX))>>),
                        Some(<<Entry(Some(CodeX)), Entry(Some(CodeU))>>)}}
RichRates ==
    {JNum(2, 1), JNum(5, 2), JNum(0, 1), JNum(0 - 2, 1), JNull,
     JStr(<<"2", ".", "5">>), JStr(<<"-", "1">>), JStr(<<"0">>),
     JStr(<<"x">>), JStr(<<>>)}
RichTables ==
    {[c \in {CodeU} |-> JNum(3, 1)]}
    \cup {[c \in {CodeX, CodeU} |-> IF c = CodeX THEN v ELSE JNum(3, 1)] :
             v \in RichRates}

DeleteNames == {<<"a", "b">>}
Queries ==
    {Query(region, currency, sort, other) :
        region \in {None, Some(EmptyStr), Some(<<"e", "u">>)},
        currency \in {None, Some(<<"x">>)},
        sort \in {None, Some(GdpDesc)},
        other \in {{}, {"bogus"}}}

\* ----------------------------------------------------------- specifications
Refresh(p, batches, tables) ==
    \/ FetchCountries(p, batches)
    \/ FetchCountriesFail(p)
    \/ FetchRates(p, tables)
    \/ FetchRatesFail(p)
    \/ Select(p)
    \/ Write(p)
    \/ WriteFail(p)
    \/ Report(p)
    \/ ReportFail(p)
    \/ Commit(p)
    \/ CommitFail(p)

\* One worker serves refreshes one after the other, and countries are
\* deleted.
Next ==
    \/ Refresh(1, BatchesOf(SmallItems), SmallTables)
    \/ \E name \in DeleteNames : DeleteCountry(name)
Spec == Init /\ [][Next]_vars

\* One worker refreshes single records of every shape.
NextDerive == Refresh(1, {<<item>> : item \in RichItems}, RichTables)
SpecDerive == Init /\ [][NextDerive]_vars

\* One worker refreshes from lists in which records lack a name.
NextSkip ==
    \/ Refresh(1, BatchesOf(SkipItems), SmallTables)
    \/ \E name \in DeleteNames : DeleteCountry(name)
SpecSkip == Init /\ [][NextSkip]_vars

\* One worker refreshes while the read endpoints are queried.
NextRead ==
    \/ Refresh(1, BatchesOf(ReadItems), SmallTables)
    \/ \E name \in DeleteNames : DeleteCountry(name)
    \/ \E q \in Queries : ListCountries(q)
    \/ \E name \in DeleteNames : GetCountry(name)
    \/ StatusCount
    \/ StatusLast
SpecRead == Init /\ [][NextRead]_vars

\* Two workers serve refreshes that may overlap, and countries are deleted.
OverlapBatches == {<<ItemAb>>, <<ItemaB>>, <<ItemB, ItemAb>>}
NextOverlap ==
    \/ \E p \in Procs : Refresh(p, OverlapBatches, SmallTables)
    \/ \E name \in DeleteNames : DeleteCountry(name)
SpecOverlap == Init /\ [][NextOverlap]_vars

\* ------------------------------------------------------------------ claims
FetchFailed(p) == err[p] \in {"countries", "rates"}

\* C1: when fetch_countries or fetch_exchange_rates fails, the refresh
\* answers 503, has issued no write statement, holds no uncommitted write,
\* and has not changed the committed rows.
Thm_C1 ==
    \A p \in Procs :
        FetchFailed(p) =>
            /\ pc[p] = "done"
            /\ resp[p] = HTTP_503
            /\ nwrites[p] = 0
            /\ wr[p] = {}
            /\ ~touched[p]
\* The rate fetch fails after the country list arrived, the table holding rows.
Wit_C1 ==
    /\ err[1] = "rates"
    /\ resp[1] = HTTP_503
    /\ Len(data[1]) = MaxBatch
    /\ db # {}

WriteFailed(p) == err[p] \in {"storage", "integrity", "commit"}

\* C2: when a write statement or the commit of a batch fails, after any
\* number of records of the batch were written, the refresh answers 500 and
\* none of the batch's writes reaches the committed rows.
Thm_C2 ==
    \A p \in Procs :
        WriteFailed(p) =>
            /\ pc[p] = "done"
            /\ resp[p] = HTTP_500
            /\ wr[p] = {}
            /\ ~touched[p]
\* The second write statement of a batch fails, the first one having written a row.
Wit_C2 ==
    /\ err[1] = "storage"
    /\ nwrites[1] = 2
    /\ idx[1] = 2
    /\ db # {}

\* No two rows of a set of rows have the same case-folded name.
UniqueFolded(rows) ==
    \A a, b \in rows : Fold(a.name) = Fold(b.name) => a.id = b.id

\* C3: the committed rows, together with the rows an open transaction
\* wrote, hold at most one row id per case-folded name (a write for a stored
\* name rewrites the row of that name, whatever the letter case), and a name
\* the transaction can see is never sent to create.
Thm_C3 ==
    \A p \in Procs :
        /\ UniqueFolded(db \cup wr[p])
        /\ Cardinality(View(p)) = Cardinality({Fold(r.name) : r \in View(p)})
        /\ (pc[p] = "write" /\ IsNone(obj[p])) =>
               \A r \in View(p) : Fold(r.name) # Fold(Val(dflt[p]).name)
        /\ err[p] # "integrity"
\* A later refresh has rewritten, under the same id, a committed row whose
\* name differs from the new one in letter case only, next to another row.
Wit_C3 ==
    /\ started = 2
    /\ pc[1] = "commit"
    /\ Cardinality(View(1)) = 2
    /\ \E r \in wr[1] : \E o \in db :
          o.id = r.id /\ o.name # r.name /\ Fold(o.name) = Fold(r.name)

\* The item the loop of worker p handled last, once it has written one.
Handled(p) ==
    /\ idx[p] > 1
    /\ \/ pc[p] \in {"loop", "commit"}
       \/ pc[p] = "done" /\ resp[p] = HTTP_200
LastItem(p) == data[p][idx[p] - 1]
\* The rows standing for that item: in the open transaction or, after the
\* response, in the table.
StoredFor(p) ==
    {r \in (IF pc[p] = "done" THEN db ELSE View(p)) :
        IExact(r.name, Val(LastItem(p).name))}

\* C4: a raw record with a name and an empty, null or absent currency list
\* is stored with currency_code null, exchange_rate null and estimated_gdp
\* zero, under every rate mapping.
Thm_C4 ==
    \A p \in Procs :
        (Handled(p) /\ HasName(LastItem(p)) /\ CurrenciesOf(LastItem(p)) = <<>>) =>
            /\ StoredFor(p) # {}
            /\ \A r \in StoredFor(p) :
                  /\ r.currency_code = None
                  /\ r.exchange_rate = None
                  /\ r.estimated_gdp = Some(Zero)
\* A record without currencies is committed, over a row that had a rate.
Wit_C4 ==
    /\ pc[1] = "done"
    /\ resp[1] = HTTP_200
    /\ started = 2
    /\ idx[1] = 2
    /\ CurrenciesOf(LastItem(1)) = <<>>
    /\ CodeX \in DOMAIN rates[1]
    /\ \E r \in db : r.id = 1 /\ r.estimated_gdp = Some(Zero)
    /\ image # None /\ Val(image).ts = 2

\* The rate the mapping gives for the record's first currency code: None
\* when the code is missing from the record or the mapping, or the value is
\* no number.
ParsedRate(item, table) ==
    LET code == FirstCode(item) IN
    IF IsNone(code) \/ Val(code) \notin DOMAIN table THEN None
    ELSE ToFloat(table[Val(code)])
HasPositiveRate(item, table) ==
    /\ ~IsNone(ParsedRate(item, table))
    /\ RatLess(Zero, Val(ParsedRate(item, table)))

\* C5: a raw record with a non-empty currency list whose first code is not
\* in the rate mapping, or maps to a value that is no positive number, is
\* stored with exchange_rate null and estimated_gdp null, and with the first
\* entry's code as currency_code.
Cx_C5 ==
    \A p \in Procs :
        (/\ Handled(p)
         /\ HasName(LastItem(p))
         /\ CurrenciesOf(LastItem(p)) # <<>>
         /\ ~HasPositiveRate(LastItem(p), rates[p])) =>
            /\ StoredFor(p) # {}
            /\ \A r \in StoredFor(p) :
                  /\ r.exchange_rate = None
                  /\ r.estimated_gdp = None
                  /\ r.currency_code = FirstCode(LastItem(p))

\* C6: a raw record whose first currency code maps to a positive rate is
\* stored with that rate as exchange_rate and with estimated_gdp =
\* population * multiplier / rate for an integer multiplier of 1000..2000;
\* and for a record with currencies estimated_gdp is null exactly when the
\* rate is null or not positive.
Cx_C6 ==
    \A p \in Procs :
        (/\ Handled(p)
         /\ HasName(LastItem(p))
         /\ CurrenciesOf(LastItem(p)) # <<>>) =>
            LET rate == ParsedRate(LastItem(p), rates[p])
                positive == HasPositiveRate(LastItem(p), rates[p])
            IN  \A r \in StoredFor(p) :
                  /\ positive =>
                        /\ r.exchange_rate = rate
                        /\ \E m \in MinMultiplier..MaxMultiplier :
                              r.estimated_gdp =
                                 Some(Rat(PopulationOf(LastItem(p)) * m * Val(rate)[2],
                                          Val(rate)[1]))
                  /\ IsNone(r.estimated_gdp) <=> ~positive

\* No record of the list has a name, so none is created or updated.
NoneQualifies(batch) == \A i \in DOMAIN batch : ~HasName(batch[i])

\* C7: a refresh whose fetches succeeded and in whose list no record
\* qualifies for a create or an update answers 400, issues no write
\* statement and leaves the committed rows as they were.
Cx_C7 ==
    \A p \in Procs :
        (pc[p] = "done" /\ err[p] = "" /\ NoneQualifies(data[p])) =>
            /\ resp[p] = 400
            /\ nwrites[p] = 0
            /\ ~touched[p]

\* The query holds a key that is no filter (and is not sort), or a filter
\* with an empty value.
InvalidQuery(q) ==
    \/ q.other # {}
    \/ q.region = Some(EmptyStr)
    \/ q.currency = Some(EmptyStr)

\* C8: GET /countries with an unknown key, or with an allowed key whose
\* value is empty, answers 400 and no list of records.
Cx_C8 ==
    (rd.kind = "list" /\ InvalidQuery(rd.query)) =>
        /\ rd.status = 400
        /\ rd.body = <<>>

\* C9: GET /countries whose filters leave no row, the table being empty or
\* not, answers 404 and not 200 with an empty list.
Cx_C9 ==
    (rd.kind = "list" /\ ~InvalidQuery(rd.query) /\ rd.body = <<>>) =>
        rd.status = HTTP_404

\* C10: what a read request answers is what one committed table shows, the
\* one before a refresh committed or the one after: for GET /status (no
\* DELETE being served meanwhile), total_countries and last_refreshed_at
\* are the count and the latest timestamp of one and the same committed
\* table among those that existed while the request ran.
Cx_C10 ==
    (rd.kind = "status" /\ rd.pc = "done" /\ ~rd.mixed) =>
        <<rd.total, rd.last>> \in rd.seen

\* C11: the last_refreshed_at of a stored row never moves backward: no step
\* replaces the committed timestamp of a row by an earlier one, also when
\* two refreshes overlap and commit in the order opposite to that of their
\* timestamps.
Cx_C11 ==
    [][\A r \in db : \A s \in db' :
          s.id = r.id =>
              Val(r.last_refreshed_at) <= Val(s.last_refreshed_at)]_vars

\* A step of worker p's refresh: every step of refresh_countries moves its
\* position or its loop index, and no other request does.
RefreshStep(p) == pc'[p] # pc[p] \/ idx'[p] # idx[p]
\* The list of worker p holds a record with this name, up to letter case.
InBatch(p, name) ==
    \E i \in DOMAIN data[p] :
        HasName(data[p][i]) /\ IExact(Val(data[p][i].name), name)

\* C12: a step of a refresh removes no row and does not lower the number of
\* rows, and a committed row it changes in any field has a name that occurs,
\* up to letter case, in the list of that refresh; so a row disappears in a
\* DELETE step only.
Thm_C12 ==
    [][(\E p \in Procs : RefreshStep(p)) =>
          /\ Ids(db) \subseteq Ids(db')
          /\ Cardinality(db') >= Cardinality(db)
          /\ \A r \in db :
                r \notin db' => \E p \in Procs : RefreshStep(p) /\ InBatch(p, r.name)]_vars
\* A second refresh has committed a row, and a row of the first refresh,
\* whose name is not in the second list, is stored as the first left it.
Wit_C12 ==
    /\ started = 2
    /\ pc[1] = "done"
    /\ resp[1] = HTTP_200
    /\ touched[1]
    /\ \E r \in db : r.last_refreshed_at = Some(1) /\ ~InBatch(1, r.name)
    /\ \E r \in db : r.last_refreshed_at = Some(2)

====
